---- MODULE Spec2Model ----
(***************************************************************************)
(* EKF-SLAM estimator of src/src/ekf_slam.rs (struct EkfSlam: new,         *)
(* predict, update, initialize_landmark, correct_landmark).                *)
(*                                                                         *)
(* Number representation (exact arithmetic on a grid on which the          *)
(* trigonometric functions are exact):                                     *)
(*   - positions, ranges, linear velocities and delta_time are integers;   *)
(*   - angles (heading state[2], bearings, angular_velocity * time) are    *)
(*     integer counts of quarter turns, i.e. the angle q * PI/2, so that   *)
(*     cos and sin are in {-1, 0, 1}.  Angular velocities are even counts, *)
(*     so the midpoint heading theta + 0.5*w*dt is on the grid too;        *)
(*   - a covariance entry is a polynomial c0 + c1*PI + c2*PI^2 in units of *)
(*     1e-4, written <<c0, c1, c2>>.  PI enters only through the control   *)
(*     noise (0.1*|w| + 0.01)^2; every Jacobian entry is an integer, so    *)
(*     degree 2 is closed under the filter's operations, and two entries   *)
(*     are equal as reals iff their coefficients are equal.                *)
(* Rust indices are 0-based; sequences here are 1-based, so state[i] of    *)
(* the source is state[i+1] here.  Offsets stored in observed_landmarks    *)
(* are the source's 0-based offsets.                                       *)
(***************************************************************************)
EXTENDS Integers, Sequences, FiniteSets, TLC

VARIABLES state, covariance, observed_landmarks,
          last, init_count, first_seen, ncalls,
          other, pendingA, in_tick, tick_known

vars == <<state, covariance, observed_landmarks,
          last, init_count, first_seen, ncalls,
          other, pendingA, in_tick, tick_known>>

(* ------------------------------ bounds -------------------------------- *)
\* number of predict/update calls explored from EkfSlam::new()
MaxCalls == 3

\* landmark ids the sensor reports
LandmarkIds == {1, 2}
LinearVelocities == {-1, 0, 1}
\* quarter turns per unit time (even, see the header)
AngularVelocities == {-2, 0, 2}
DeltaTimes == {0, 1}
Ranges == {-1, 0, 2}
\* quarter turns
Bearings == {0, 1}

(* ---------------------------- f32 arithmetic -------------------------- *)
Zero == <<0, 0, 0>>
Num(k) == <<k, 0, 0>>
PAdd(a, b) == <<a[1] + b[1], a[2] + b[2], a[3] + b[3]>>
PScale(k, a) == <<k * a[1], k * a[2], k * a[3]>>
Abs(x) == IF x < 0 THEN -x ELSE x

\* cos and sin of q quarter turns
Cos(q) == CASE q % 4 = 0 -> 1 [] q % 4 = 1 -> 0 [] q % 4 = 2 -> -1 [] OTHER -> 0
Sin(q) == CASE q % 4 = 0 -> 0 [] q % 4 = 1 -> 1 [] q % 4 = 2 -> 0 [] OTHER -> -1

\* atan2(sin(q), cos(q)): the representative of q in (-PI, PI], i.e. in -1..2
NormalizeAngle(q) == IF q % 4 > 2 THEN (q % 4) - 4 ELSE q % 4

(* ------------------------- nalgebra matrices -------------------------- *)
\* a matrix is a sequence of rows
NRows(M) == Len(M)
NCols(M) == IF Len(M) = 0 THEN 0 ELSE Len(M[1])

RECURSIVE SumP(_, _)
SumP(f, n) == IF n = 0 THEN Zero ELSE PAdd(SumP(f, n - 1), f[n])

\* integer matrix * covariance-valued matrix
MulIP(A, B) ==
  [i \in 1..NRows(A) |-> [j \in 1..NCols(B) |->
      SumP([k \in 1..NRows(B) |-> PScale(A[i][k], B[k][j])], NRows(B))]]

\* covariance-valued matrix * integer matrix
MulPI(A, B) ==
  [i \in 1..NRows(A) |-> [j \in 1..NCols(B) |->
      SumP([k \in 1..NRows(B) |-> PScale(B[k][j], A[i][k])], NRows(B))]]

MAdd(A, B) == [i \in 1..NRows(A) |-> [j \in 1..NCols(A) |-> PAdd(A[i][j], B[i][j])]]

Transpose(M) == [j \in 1..NCols(M) |-> [i \in 1..NRows(M) |-> M[i][j]]]

\* view((r, c), (nr, nc)) / fixed_view::<nr, nc>(r, c), 0-based start
View(M, r, c, nr, nc) == [i \in 1..nr |-> [j \in 1..nc |-> M[r + i][c + j]]]

\* view_mut((r, c), shape of B).copy_from(&B)
CopyFrom(M, r, c, B) ==
  [i \in 1..NRows(M) |-> [j \in 1..NCols(M) |->
      IF i > r /\ i <= r + NRows(B) /\ j > c /\ j <= c + NCols(B)
      THEN B[i - r][j - c] ELSE M[i][j]]]

\* Resize with a row too many (off by one in the new shape)
Resize_extra_row(M, n, m, val) ==
  [i \in 1..(n + 1) |-> [j \in 1..m |->
      IF i <= NRows(M) /\ j <= NCols(M) THEN M[i][j] ELSE val]]

\* DMatrix::resize(n, m, val): keeps the old entries, fills the new with val
Resize(M, n, m, val) ==
  [i \in 1..n |-> [j \in 1..m |->
      IF i <= NRows(M) /\ j <= NCols(M) THEN M[i][j] ELSE val]]

\* DVector::resize_vertically(n, val)
ResizeVertically(v, n, val) == [i \in 1..n |-> IF i <= Len(v) THEN v[i] ELSE val]

\* DMatrix::identity(n, n) * k
ScaledIdentity(n, k) == [i \in 1..n |-> [j \in 1..n |-> IF i = j THEN Num(k) ELSE Zero]]

(* ------------------------------ Config -------------------------------- *)
\* cfg.sigma_range^2 and cfg.sigma_bearing^2 in units of 1e-4 (both > 0)
SigmaRangeSq == 100
SigmaBearingSq == 25

(* ------------------------------ EkfSlam ------------------------------- *)
\* EkfSlam::new(): state [0, 0, 0], covariance 0.01 * I3, no landmarks
new == [state |-> <<0, 0, 0>>,
        covariance |-> ScaledIdentity(3, 100),
        observed_landmarks |-> <<>>]

\* Insert that starts a fresh map holding the new key only
Insert_replace(map, id, idx) == [k \in {id} |-> idx]

\* Insert that stores the length after the resize instead of the old length
Insert_new_len(map, id, idx) ==
  [k \in (DOMAIN map) \cup {id} |-> IF k = id THEN idx + 2 ELSE map[k]]

\* HashMap::insert(id, idx): adds the key or overwrites its value
Insert(map, id, idx) == [k \in (DOMAIN map) \cup {id} |-> IF k = id THEN idx ELSE map[k]]

(* ------------------------------ predict ------------------------------- *)
\* midpoint heading theta + 0.5 * angular_velocity * delta_time
ThetaHalf(theta, angular_velocity, delta_time) ==
  theta + ((angular_velocity * delta_time) \div 2)

\* jacobian of the motion model
F_x(theta_half, linear_velocity, delta_time) ==
  << <<1, 0, -linear_velocity * delta_time * Sin(theta_half)>>,
     <<0, 1, linear_velocity * delta_time * Cos(theta_half)>>,
     <<0, 0, 1>> >>

\* (0.1*|v| + 0.01)^2 in units of 1e-4
SigmaLinearSq(linear_velocity) ==
  Num((10 * Abs(linear_velocity) + 1) * (10 * Abs(linear_velocity) + 1))

\* (0.1*|w| + 0.01)^2 in units of 1e-4, with |w| = |q| * PI/2:
\* (5*|q|*PI + 1)^2 = 1 + 10*|q|*PI + 25*q^2*PI^2
SigmaAngularSq(angular_velocity) ==
  <<1, 10 * Abs(angular_velocity), 25 * angular_velocity * angular_velocity>>

\* covariance of control noise
NoiseN(linear_velocity, angular_velocity) ==
  << <<SigmaLinearSq(linear_velocity), Zero>>,
     <<Zero, SigmaAngularSq(angular_velocity)>> >>

\* F_n whose heading row ignores delta_time
F_n_unit_time(theta_half, delta_time) ==
  << <<Cos(theta_half) * delta_time, 0>>,
     <<Sin(theta_half) * delta_time, 0>>,
     <<0, 1>> >>

\* jacobian of control noise
F_n(theta_half, delta_time) ==
  << <<Cos(theta_half) * delta_time, 0>>,
     <<Sin(theta_half) * delta_time, 0>>,
     <<0, delta_time>> >>

\* PredictCross that leaves the map-robot block as it was (line 77 missing)
PredictCross_no_transpose(cov, f_x) ==
  LET map_size == NCols(cov) - 3
  IN  IF map_size > 0
      THEN CopyFrom(cov, 0, 3, MulIP(f_x, View(cov, 0, 3, 3, map_size)))
      ELSE cov

\* robot-map and map-robot cross-covariance blocks
PredictCross(cov, f_x) ==
  LET map_size == NCols(cov) - 3
  IN  IF map_size > 0
      THEN LET p_rm == View(cov, 0, 3, 3, map_size)
               new_p_rm == MulIP(f_x, p_rm)
           IN  CopyFrom(CopyFrom(cov, 0, 3, new_p_rm), 3, 0, Transpose(new_p_rm))
      ELSE cov

predict(e, linear_velocity, angular_velocity, delta_time) ==
  LET theta == e.state[3]
      theta_half == ThetaHalf(theta, angular_velocity, delta_time)
      new_state ==
        [e.state EXCEPT
           ![1] = @ + linear_velocity * delta_time * Cos(theta_half),
           ![2] = @ + linear_velocity * delta_time * Sin(theta_half),
           ![3] = NormalizeAngle(@ + angular_velocity * delta_time)]
      f_x == F_x(theta_half, linear_velocity, delta_time)
      n == NoiseN(linear_velocity, angular_velocity)
      f_n == F_n(theta_half, delta_time)
      p_rr == View(e.covariance, 0, 0, 3, 3)
      new_p_rr == MAdd(MulPI(MulIP(f_x, p_rr), Transpose(f_x)),
                       MulPI(MulIP(f_n, n), Transpose(f_n)))
      cov1 == CopyFrom(e.covariance, 0, 0, new_p_rr)
  IN  [state |-> new_state,
       covariance |-> PredictCross(cov1, f_x),
       observed_landmarks |-> e.observed_landmarks]

(* ------------------------------- update ------------------------------- *)
\* (x, y) of a landmark seen at (range, bearing) from the robot pose
relative_to_absolute(s, range, bearing) ==
  LET absolute_angle == s[3] + bearing
  IN  <<s[1] + range * Cos(absolute_angle), s[2] + range * Sin(absolute_angle)>>

\* squared range of absolute_to_relative(x, y): distance_x^2 + distance_y^2
\* (the range itself is its square root)
RangeSq(s, x, y) == (x - s[1]) * (x - s[1]) + (y - s[2]) * (y - s[2])

\* jacobian of landmark position with respect to robot state
G_r(absolute_angle, range) ==
  << <<1, 0, -range * Sin(absolute_angle)>>,
     <<0, 1, range * Cos(absolute_angle)>> >>

\* jacobian of landmark position with respect to observation
G_y(absolute_angle, range) ==
  << <<Cos(absolute_angle), -range * Sin(absolute_angle)>>,
     <<Sin(absolute_angle), range * Cos(absolute_angle)>> >>

\* sensor noise
SensorR == << <<Num(SigmaRangeSq), Zero>>, <<Zero, Num(SigmaBearingSq)>> >>

\* GrowCovariance that writes the new rows across the robot columns only
GrowCovariance_robot_only(cov, old_len, p_lx, p_ll) ==
  CopyFrom(
    CopyFrom(
      CopyFrom(Resize(cov, old_len + 2, old_len + 2, Zero),
               old_len, 0, View(p_lx, 0, 0, 2, 3)),
      0, old_len, Transpose(p_lx)),
    old_len, old_len, p_ll)

\* the grown covariance with P_lx, its transpose and P_ll written
GrowCovariance(cov, old_len, p_lx, p_ll) ==
  CopyFrom(
    CopyFrom(
      CopyFrom(Resize(cov, old_len + 2, old_len + 2, Zero), old_len, 0, p_lx),
      0, old_len, Transpose(p_lx)),
    old_len, old_len, p_ll)

initialize_landmark(e, observation) ==
  LET old_len == Len(e.state)
      xy == relative_to_absolute(e.state, observation.range, observation.bearing)
      landmarks == Insert(e.observed_landmarks, observation.id, old_len)
      new_state == [ResizeVertically(e.state, old_len + 2, 0)
                      EXCEPT ![old_len + 1] = xy[1], ![old_len + 2] = xy[2]]
      theta == new_state[3]
      absolute_angle == theta + observation.bearing
      g_r == G_r(absolute_angle, observation.range)
      g_y == G_y(absolute_angle, observation.range)
      p_rr == View(e.covariance, 0, 0, 3, 3)
      p_ll == MAdd(MulPI(MulIP(g_r, p_rr), Transpose(g_r)),
                   MulPI(MulIP(g_y, SensorR), Transpose(g_y)))
      p_rx == View(e.covariance, 0, 0, 3, old_len)
      p_lx == MulIP(g_r, p_rx)
  IN  [state |-> new_state,
       covariance |-> GrowCovariance(e.covariance, old_len, p_lx, p_ll),
       observed_landmarks |-> landmarks]

\* fn correct_landmark(&self, ...) { /* TODO */ }: empty body, &self
correct_landmark(e, observation, landmark_index) == e

\* update without the lookup: every observation is initialized
update_always_initialize(e, observation) ==
  [ekf |-> initialize_landmark(e, observation),
   branch |-> "initialize_landmark", returned |-> "unit"]

\* the estimator after update(observation), the branch update took and the
\* value the caller gets back (update returns ())
update(e, observation) ==
  IF observation.id \in DOMAIN e.observed_landmarks
  THEN [ekf |-> correct_landmark(e, observation, e.observed_landmarks[observation.id]),
        branch |-> "correct_landmark", returned |-> "unit"]
  ELSE [ekf |-> initialize_landmark(e, observation),
        branch |-> "initialize_landmark", returned |-> "unit"]


(* ------------------------- the estimator's calls ---------------------- *)
\* the estimator the caller owns
Self == [state |-> state, covariance |-> covariance,
         observed_landmarks |-> observed_landmarks]

Observations == [id : LandmarkIds, range : Ranges, bearing : Bearings]

NoCall == [op |-> "new", linear_velocity |-> 0, angular_velocity |-> 0,
           delta_time |-> 0, id |-> 0, range |-> 0, bearing |-> 0,
           branch |-> "none", returned |-> "unit"]

RangeOf(f) == {f[i] : i \in DOMAIN f}

Init ==
  /\ state = new.state
  /\ covariance = new.covariance
  /\ observed_landmarks = new.observed_landmarks
  /\ last = NoCall
  /\ init_count = [id \in LandmarkIds |-> 0]
  /\ first_seen = <<>>
  /\ ncalls = 0
  /\ other = new
  /\ pendingA = {}
  /\ in_tick = FALSE
  /\ tick_known = {}

\* the caller's estimator becomes e
Store(e) ==
  /\ state' = e.state
  /\ covariance' = e.covariance
  /\ observed_landmarks' = e.observed_landmarks

\* one call of update(observation) on the caller's estimator
CallUpdate(observation) ==
  LET r == update(Self, observation)
  IN  /\ Store(r.ekf)
      /\ last' = [NoCall EXCEPT !.op = "update", !.id = observation.id,
                                !.range = observation.range,
                                !.bearing = observation.bearing,
                                !.branch = r.branch, !.returned = r.returned]
      /\ init_count' = IF r.branch = "initialize_landmark"
                       THEN [init_count EXCEPT ![observation.id] = @ + 1]
                       ELSE init_count
      /\ first_seen' = IF observation.id \in RangeOf(first_seen)
                       THEN first_seen
                       ELSE Append(first_seen, observation.id)
      /\ ncalls' = ncalls + 1

\* predict(linear_velocity, angular_velocity, delta_time), once per control tick
Predict ==
  \E v \in LinearVelocities, w \in AngularVelocities, dt \in DeltaTimes :
    /\ ~in_tick
    /\ ncalls < MaxCalls
    /\ Store(predict(Self, v, w, dt))
    /\ last' = [NoCall EXCEPT !.op = "predict", !.linear_velocity = v,
                              !.angular_velocity = w, !.delta_time = dt]
    /\ ncalls' = ncalls + 1
    /\ UNCHANGED <<init_count, first_seen, other, pendingA, in_tick, tick_known>>

\* update(observation), once per detected landmark
Update ==
  \E observation \in Observations :
    /\ ~in_tick
    /\ ncalls < MaxCalls
    /\ CallUpdate(observation)
    /\ UNCHANGED <<other, pendingA, in_tick, tick_known>>

Next == Predict \/ Update

Spec == Init /\ [][Next]_vars


(* ------------------------------- claims ------------------------------- *)
\* the step is a call of op on the caller's estimator
Called(op) == ncalls' = ncalls + 1 /\ last'.op = op

\* squared predicted range of the tracked landmark stored at offset idx
PredictedRangeSq(s, idx) == RangeSq(s, s[idx + 1], s[idx + 2])

\* C1: after new and after every predict/update, the covariance is square,
\* its side is the length of the state vector, and that length is 3 + 2L
\* with L the number of ids in observed_landmarks.
C1_Dimensions ==
  /\ NRows(covariance) = Len(state)
  /\ \A i \in 1..NRows(covariance) : Len(covariance[i]) = Len(state)
  /\ Len(state) = 3 + 2 * Cardinality(DOMAIN observed_landmarks)

\* two landmarks registered and a predict run on the 7-dimensional estimate
C1_Witness ==
  /\ last.op = "predict"
  /\ last.delta_time = 1
  /\ Len(state) = 7
  /\ Cardinality(DOMAIN observed_landmarks) = 2

\* C2: update called twice with the same previously-unseen id registers it
\* once: the first call runs initialize_landmark and grows the state by 2,
\* the second runs correct_landmark and grows nothing; initialize_landmark
\* runs at most once per id over any sequence of calls.
C2_RegistersOnce ==
  /\ [](\A id \in LandmarkIds : init_count[id] <= 1)
  /\ [][(Called("update") /\ last'.id \notin DOMAIN observed_landmarks)
          => /\ last'.branch = "initialize_landmark"
             /\ Len(state') = Len(state) + 2
             /\ NRows(covariance') = NRows(covariance) + 2]_vars
  /\ [][(/\ Called("update")
         /\ last.op = "update"
         /\ last.branch = "initialize_landmark"
         /\ last'.id = last.id)
          => /\ last'.branch = "correct_landmark"
             /\ Len(state') = Len(state)
             /\ NRows(covariance') = NRows(covariance)
             /\ NCols(covariance') = NCols(covariance)
             /\ observed_landmarks' = observed_landmarks]_vars

\* two calls only: the id was initialized by the first and corrected by the second
C2_Witness ==
  /\ ncalls = 2
  /\ last.op = "update"
  /\ last.branch = "correct_landmark"
  /\ init_count[last.id] = 1
  /\ Len(state) = 5

\* C3: once an id is in observed_landmarks with offset k it stays there with
\* offset k after every later call, and no other id has offset k.
C3_OffsetsStable ==
  /\ [][\A id \in DOMAIN observed_landmarks :
          /\ id \in DOMAIN observed_landmarks'
          /\ observed_landmarks'[id] = observed_landmarks[id]]_vars
  /\ [](\A a, b \in DOMAIN observed_landmarks :
          a # b => observed_landmarks[a] # observed_landmarks[b])

\* an id registered first, another registered later, then a further update of the first
C3_Witness ==
  /\ ncalls = 3
  /\ Cardinality(DOMAIN observed_landmarks) = 2
  /\ last.op = "update"
  /\ last.branch = "correct_landmark"
  /\ observed_landmarks[last.id] = 3

\* C4: the offsets are exactly 3, 5, ..., 3 + 2(L-1), the n-th distinct id
\* ever passed to update has offset 3 + 2(n-1), and offset + 1 < state length.
C4_OffsetsInFirstSightingOrder ==
  /\ DOMAIN observed_landmarks = RangeOf(first_seen)
  /\ \A n \in 1..Len(first_seen) :
       observed_landmarks[first_seen[n]] = 3 + 2 * (n - 1)
  /\ {observed_landmarks[id] : id \in DOMAIN observed_landmarks}
       = {3 + 2 * k : k \in 0..(Cardinality(DOMAIN observed_landmarks) - 1)}
  /\ \A id \in DOMAIN observed_landmarks :
       observed_landmarks[id] + 1 < Len(state)

\* id 2 sighted before id 1
C4_Witness ==
  /\ first_seen = <<2, 1>>
  /\ observed_landmarks[2] = 3
  /\ observed_landmarks[1] = 5

\* C5: an update whose observation has a negative range is rejected before
\* initialization or correction: the caller gets a validation error and
\* state, covariance and observed_landmarks are unchanged.
C5_NegativeRangeRejected ==
  [][(Called("update") /\ last'.range < 0)
       => /\ last'.returned = "validation_error"
          /\ last'.branch = "none"
          /\ UNCHANGED <<state, covariance, observed_landmarks>>]_vars

\* C6: an update of a tracked landmark whose innovation covariance is
\* singular (range 0 seen for a landmark estimated at the robot's own
\* position) leaves state and covariance unchanged and reports the rejection
\* to the caller of update.
C6_SingularRejectedAndReported ==
  [][(/\ Called("update")
      /\ last'.id \in DOMAIN observed_landmarks
      /\ last'.range = 0
      /\ PredictedRangeSq(state, observed_landmarks[last'.id]) = 0)
       => /\ UNCHANGED <<state, covariance>>
          /\ last'.returned = "rejected"]_vars

\* C7: an update of a tracked landmark whose observed range differs from the
\* predicted range (nonzero innovation, predicted range > 0 so S is
\* invertible) changes the estimate and keeps its dimension.
C7_CorrectionFuses ==
  [][(/\ Called("update")
      /\ last'.id \in DOMAIN observed_landmarks
      /\ last'.range >= 0
      /\ PredictedRangeSq(state, observed_landmarks[last'.id]) > 0
      /\ last'.range * last'.range
           # PredictedRangeSq(state, observed_landmarks[last'.id]))
       => /\ state' # state
          /\ Len(state') = Len(state)
          /\ NRows(covariance') = NRows(covariance)]_vars

C9_Symmetric ==
  \A i, j \in 1..NRows(covariance) : covariance[i][j] = covariance[j][i]

\* a predict that moved the robot with a landmark in the map, whose
\* robot-landmark cross-covariance is not zero
C9_Witness ==
  /\ last.op = "predict"
  /\ last.delta_time = 1
  /\ last.linear_velocity # 0
  /\ Len(state) >= 5
  /\ \E i \in 1..3, j \in 4..Len(state) :
       covariance[i][j] # Zero /\ i # j - 3

(* ------------------- one tick delivered in two orders ----------------- *)
\* the sets of observations a tick can deliver: pairwise distinct ids,
\* at least two observations
TickSets ==
  {S \in SUBSET Observations :
     /\ Cardinality(S) >= 2
     /\ \A a, b \in S : a.id = b.id => a = b}

\* the estimator after the observations of S are delivered to e in
\* ascending order of id
RECURSIVE Feed(_, _)
Feed(e, S) ==
  IF S = {} THEN e
  ELSE LET o == CHOOSE x \in S : \A y \in S : x.id <= y.id
       IN  Feed(update(e, o).ekf, S \ {o})

\* the sensor reports a set of observations. The caller's estimator is about
\* to be fed the set in an order of the caller's choice; other is what a copy
\* of the estimator becomes when fed the same set in ascending order of id,
\* tick_known the ids tracked when the tick begins
BeginTick ==
  \E S \in TickSets :
    /\ ~in_tick
    /\ ncalls + Cardinality(S) <= MaxCalls
    /\ in_tick' = TRUE
    /\ pendingA' = S
    /\ other' = Feed(Self, S)
    /\ tick_known' = DOMAIN observed_landmarks
    /\ UNCHANGED <<state, covariance, observed_landmarks,
                   last, init_count, first_seen, ncalls>>

\* the caller delivers one of the tick's observations to its estimator
DeliverA ==
  \E observation \in pendingA :
    /\ in_tick
    /\ CallUpdate(observation)
    /\ pendingA' = pendingA \ {observation}
    /\ UNCHANGED <<other, in_tick, tick_known>>

\* the whole set is delivered: the tick is over, the copy is dropped
EndTick ==
  /\ in_tick
  /\ pendingA = {}
  /\ in_tick' = FALSE
  /\ other' = new
  /\ tick_known' = {}
  /\ UNCHANGED <<state, covariance, observed_landmarks,
                 last, init_count, first_seen, ncalls, pendingA>>

NextTick == Predict \/ Update \/ BeginTick \/ DeliverA \/ EndTick

SpecTick == Init /\ [][NextTick]_vars

\* the caller's estimator has received every observation of the tick
TickDelivered == in_tick /\ pendingA = {}

\* position of a component of the estimate, named by what it estimates:
\* <<0, 1..3>> the robot's x, y, heading; <<id, 1..2>> the landmark's x, y
Slot(e, key) ==
  IF key[1] = 0 THEN key[2] ELSE e.observed_landmarks[key[1]] + key[2]

Keys(e) == ({0} \X (1..3)) \cup ((DOMAIN e.observed_landmarks) \X (1..2))

\* the estimate addressed by landmark id instead of by offset
ById(e) ==
  [state |-> [k \in Keys(e) |-> e.state[Slot(e, k)]],
   covariance |-> [k \in Keys(e) |-> [l \in Keys(e) |->
                     e.covariance[Slot(e, k)][Slot(e, l)]]]]

\* C10 as stated: every delivery order of a tick's observations gives the
\* same state vector, covariance matrix and offsets.
C10_OrderIndependent == TickDelivered => Self = other

\* C10 (amended): every delivery order gives the same set of registered ids
\* and the same estimate addressed by id (robot pose, each landmark's
\* position, every covariance block); ids tracked before the tick keep their
\* offsets; state, covariance and offsets are identical when the tick
\* registers at most one new id. Ids the tick registers get their offsets in
\* delivery order.
C10_OrderIndependentById ==
  TickDelivered =>
    /\ DOMAIN observed_landmarks = DOMAIN other.observed_landmarks
    /\ Len(state) = Len(other.state)
    /\ ById(Self) = ById(other)
    /\ \A id \in tick_known :
         observed_landmarks[id] = other.observed_landmarks[id]
    /\ (Cardinality((DOMAIN observed_landmarks) \ tick_known) <= 1
          => Self = other)

\* a tick that initialized two landmarks in one order here and in the other
\* order in the copy, after the robot had moved
C10_Witness ==
  /\ TickDelivered
  /\ Cardinality(DOMAIN observed_landmarks) = 2
  /\ observed_landmarks # other.observed_landmarks
  /\ state[1] # 0

====
